---- MODULE Spec2Model ----
(***************************************************************************)
(* Blockchain sync engine of the EventTicketing backend                    *)
(* (backend/app/subscriber.py), together with the two collaborators that   *)
(* share its state: the ledger/indexer that confirms application           *)
(* transactions and the API mint flow (backend/app/routes.py) that writes  *)
(* Ticket rows to the same store.  The EventTicketing contract             *)
(* (smart_contracts/ticketing/contract.py) is modelled by its global       *)
(* state, the holder of each ticket asset and its account balance.         *)
(*                                                                         *)
(* Concurrency model: one asyncio event loop.  Code between two awaits is  *)
(* one atomic step; a store statement (select, insert+commit) takes effect *)
(* at one instant between the await that issues it and its return.        *)
(***************************************************************************)
EXTENDS Integers, Sequences, FiniteSets, TLC

\* ------------------------------------------------------------------ bounds
\* Longest ledger (number of confirmed application transactions) explored.
MaxTxns == 2
\* Page size of the indexer query, scaled down from the program's limit of 50
\* (subscriber.py:88) so that a ledger of MaxTxns transactions overflows a page.
PageLimit == 2
\* Number of times the host process is restarted.
MaxRestarts == 1

\* Longest uint64 argument, and longest value part of a return log, in bytes.
MaxWidth == 9
\* Longest seat label in characters; seat buffers are at most one byte longer.
MaxSeatLen == 3
\* Number of calls made directly against the contract.
MaxCalls == 3

\* --------------------------------------------------------------- constants
\* Python's None for an absent integer field.
NONE == -1
\* settings.app_id of a configured deployment (0 means "not configured").
APP_ID == 7
\* Default event id written by the poller.
DEFAULT_EVENT_ID == 1
\* Event id carried by API mint requests (req.event_id of an existing event).
API_EVENT_ID == 1

\* ABI method selectors, as bytes.
MINT_SELECTOR == <<51, 17, 222, 114>>
TRANSFER_SELECTOR == <<229, 255, 93, 19>>
\* ARC-4 return-value log marker 0x151f7c75.
RETURN_MARKER == <<21, 31, 124, 117>>
\* seat_number default "UNKNOWN" (as character codes).
SEAT_UNKNOWN == <<85, 78, 75, 78, 79, 87, 78>>

\* Application id of some other contract on the same ledger.
OTHER_APP_ID == 8

\* An application argument or log entry whose base64 text does not decode
\* (base64.b64decode raises); every other value is the decoded bytes.
BAD_B64 == <<-1>>

\* base64.b64decode(a) returns (does not raise).
B64Ok(a) == a # BAD_B64

\* Wallet addresses.
APP_ADDRESS == "APP"
DEPLOYER == "DEPLOYER"
Buyers == {"BUYER1"}

\* Inputs of mint calls: price in microAlgos and seat label ("A1").
Prices == {100}
Seats == {<<65, 49>>}

\* ------------------------------------------------------------ byte helpers
\* bytes[from..] (Python slice b[from-1:], 1-based here).
SliceFrom(b, from) == IF from > Len(b) THEN <<>> ELSE SubSeq(b, from, Len(b))

\* bytes[from..to] clipped to the buffer (Python slice b[from-1:to]).
Slice(b, from, to) ==
  LET hi == IF to > Len(b) THEN Len(b) ELSE to
  IN IF from > hi THEN <<>> ELSE SubSeq(b, from, hi)

\* int.from_bytes(b, "big"): defined for every length, 0 for the empty buffer.
RECURSIVE FromBytesBig(_)
FromBytesBig(b) ==
  IF Len(b) = 0 THEN 0
  ELSE FromBytesBig(SubSeq(b, 1, Len(b) - 1)) * 256 + b[Len(b)]

\* n.to_bytes(w, "big").
RECURSIVE ToBytesBig(_, _)
ToBytesBig(n, w) ==
  IF w = 0 THEN <<>> ELSE ToBytesBig(n \div 256, w - 1) \o <<n % 256>>

\* ARC-4 encoding of a uint64 argument.
EncodeUint64(n) == ToBytesBig(n, 8)

\* ARC-4 encoding of a string: 2-byte big-endian length prefix, then the bytes.
EncodeArc4String(s) == ToBytesBig(Len(s), 2) \o s

IsCont(x) == x >= 128 /\ x <= 191

\* bytes.decode("utf-8") succeeds (strict decoding).
RECURSIVE Utf8Valid(_)
Utf8Valid(b) ==
  IF Len(b) = 0 THEN TRUE
  ELSE LET c == b[1] IN
    IF c < 128 THEN Utf8Valid(SliceFrom(b, 2))
    ELSE IF c >= 194 /\ c <= 223
      THEN Len(b) >= 2 /\ IsCont(b[2]) /\ Utf8Valid(SliceFrom(b, 3))
    ELSE IF c >= 224 /\ c <= 239
      THEN /\ Len(b) >= 3 /\ IsCont(b[2]) /\ IsCont(b[3])
           /\ (c = 224 => b[2] >= 160)
           /\ (c = 237 => b[2] <= 159)
           /\ Utf8Valid(SliceFrom(b, 4))
    ELSE IF c >= 240 /\ c <= 244
      THEN /\ Len(b) >= 4 /\ IsCont(b[2]) /\ IsCont(b[3]) /\ IsCont(b[4])
           /\ (c = 240 => b[2] >= 144)
           /\ (c = 244 => b[2] <= 143)
           /\ Utf8Valid(SliceFrom(b, 5))
    ELSE FALSE

\* Python's `a or b` on integer-or-None operands: a unless it is None or 0.
PyOr(a, b) == IF a # NONE /\ a # 0 THEN a ELSE b

\* ------------------------------------------------------------------ state
VARIABLES
  ledger,      \* confirmed application transactions, oldest first (the indexer's view)
  block_open,  \* may the latest round on the ledger still receive transactions?
  tickets,     \* Ticket table, in insertion order (row id = position)
  transfers,   \* Transfer table, in insertion order
  api,         \* the API mint request in flight, if any
  app_id,      \* ChainSubscriber.app_id after initialize()
  last_round,  \* ChainSubscriber._last_round, the sync cursor
  running,     \* ChainSubscriber._running
  pc,          \* where the subscriber task is suspended
  batch,       \* transactions of the response being processed (ledger positions)
  idx,         \* position in batch of the transaction being processed
  pending,     \* locals of the handler suspended between its select and its commit
  epoch,       \* number of process restarts so far
  handed,      \* history: ledger transactions ever passed to _process_transaction
  cycle,       \* history: the last poll cycle of this process
  last,        \* history: the last handler call of the subscriber and how it ended
  contract     \* EventTicketing: global state, asset holders, payments received

vars == <<ledger, block_open, tickets, transfers, api, app_id, last_round, running, pc,
          batch, idx, pending, epoch, handed, cycle, last, contract>>

store == <<tickets, transfers>>
chain == <<ledger, block_open, contract>>
poller == <<last_round, running, pc, batch, idx, pending, cycle, handed, last>>

\* ------------------------------------------------------ ledger transactions
\* The indexer's record of a confirmed mint_ticket call: the call's arguments,
\* the inner asset-configuration transaction that created the asset, and the
\* ABI return value log.
MintTxn(id, round, sender, price, seat, asa) ==
  [id |-> id, tx_type |-> "appl", app |-> APP_ID, sender |-> sender, round |-> round,
   args |-> <<MINT_SELECTOR, EncodeUint64(price), EncodeArc4String(seat)>>,
   inner |-> << [tx_type |-> "acfg", created |-> asa, asset_id |-> 0] >>,
   logs |-> << RETURN_MARKER \o EncodeUint64(asa) >>]

\* The indexer's record of a confirmed transfer_ticket call by `buyer`.
TransferTxn(id, round, buyer, asa) ==
  [id |-> id, tx_type |-> "appl", app |-> APP_ID, sender |-> buyer, round |-> round,
   args |-> <<TRANSFER_SELECTOR, EncodeUint64(asa)>>,
   inner |-> << [tx_type |-> "axfer", created |-> NONE, asset_id |-> NONE] >>,
   logs |-> <<>>]

\* Rounds a newly confirmed transaction can have.  A round is confirmed as a
\* whole: its transactions are appended one after the other here, and the
\* latest round stays open for more until the indexer has answered a query.
NextRounds ==
  IF Len(ledger) = 0 THEN {1}
  ELSE {ledger[Len(ledger)].round + 1}
         \cup (IF block_open THEN {ledger[Len(ledger)].round} ELSE {})

\* Selector of an application call, NONE-like <<>> when there is none.
SelectorOf(txn) == IF Len(txn.args) = 0 THEN <<>> ELSE txn.args[1]

IsMintTxn(txn) == txn.tx_type = "appl" /\ SelectorOf(txn) = MINT_SELECTOR
IsTransferTxn(txn) == txn.tx_type = "appl" /\ SelectorOf(txn) = TRANSFER_SELECTOR

\* Assets created on the ledger so far, and those already released by the contract.
MintedAssets == {ledger[i].inner[1].created : i \in {j \in 1..Len(ledger) : IsMintTxn(ledger[j])}}
TransferredAssets ==
  {FromBytesBig(ledger[i].args[2]) : i \in {j \in 1..Len(ledger) : IsTransferTxn(ledger[j])}}

\* ------------------------------------------- shapes of raw transactions
\* An application call as the indexer reports it, confirmed in a round of its own.
AppCall(id, app, sender, args, inner, logs) ==
  [id |-> id, tx_type |-> "appl", app |-> app, sender |-> sender, round |-> id,
   args |-> args, inner |-> inner, logs |-> logs]

\* Inner transactions of a call: an asset creation, the reconfiguration of an
\* existing asset, an asset configuration reported without either id, and a
\* payment followed by an asset creation.
InnerCreate(asa) == << [tx_type |-> "acfg", created |-> asa, asset_id |-> 0] >>
InnerReconfig(asa) == << [tx_type |-> "acfg", created |-> NONE, asset_id |-> asa] >>
InnerBare == << [tx_type |-> "acfg", created |-> NONE, asset_id |-> NONE] >>
InnerPayThenCreate(asa) ==
  << [tx_type |-> "pay", created |-> NONE, asset_id |-> NONE] >> \o InnerCreate(asa)

\* The ABI return-value log of a method returning uint64.
ReturnLog(v) == RETURN_MARKER \o EncodeUint64(v)

\* Arguments of a mint_ticket call.
MintArgs(price, seat) == <<MINT_SELECTOR, EncodeUint64(price), EncodeArc4String(seat)>>

\* Mint calls for asset `id`: well formed ones, then one per way the asset id
\* can be (or fail to be) reported, then one per malformed argument.
MintShapes(id) ==
  LET good == MintArgs(100, <<65, 49>>)
      Mint(args, inner, logs) == AppCall(id, APP_ID, DEPLOYER, args, inner, logs)
  IN << Mint(good, InnerCreate(id), <<ReturnLog(id)>>),
        Mint(MintArgs(300, <<86, 73, 80, 45, 49>>), InnerPayThenCreate(id), <<>>),
        Mint(good, <<>>, <<ReturnLog(id)>>),
        Mint(good, InnerCreate(id), <<ReturnLog(id + 10)>>),
        Mint(good, InnerBare, <<ReturnLog(id)>>),
        Mint(good, <<>>, <<>>),
        Mint(good, <<>>, <<BAD_B64>>),
        Mint(good, <<>>, << <<1, 2, 3, 4>> \o EncodeUint64(id) >>),
        Mint(good, <<>>, <<RETURN_MARKER>>),
        Mint(good, InnerReconfig(id + 20), <<>>),
        Mint(<<MINT_SELECTOR, BAD_B64, EncodeArc4String(<<65, 49>>)>>, InnerCreate(id), <<>>),
        Mint(<<MINT_SELECTOR, EncodeUint64(100), <<0, 1, 255>> >>, InnerCreate(id), <<>>),
        Mint(<<MINT_SELECTOR, <<100>>, EncodeArc4String(<<65, 49>>)>>, InnerCreate(id), <<>>),
        Mint(<<MINT_SELECTOR>>, InnerCreate(id), <<>>) >>

\* Transfer calls by a buyer: for asset 1, with an argument that does not
\* decode, and without the argument.
TransferShapes(id) ==
  << TransferTxn(id, id, "BUYER1", 1),
     AppCall(id, APP_ID, "BUYER1", <<TRANSFER_SELECTOR, BAD_B64>>, <<>>, <<>>),
     AppCall(id, APP_ID, "BUYER1", <<TRANSFER_SELECTOR>>, <<>>, <<>>) >>

\* Transactions that are neither: another transaction type, a bare call, an
\* unknown selector, a first argument of 3 and of 5 bytes, a first argument
\* that does not decode, and a mint call to another application.  All carry
\* what a mint would need, so that handling one as a mint would show.
OtherShapes(id) ==
  LET rest == <<EncodeUint64(100), EncodeArc4String(<<65, 49>>)>>
      Call(first) == AppCall(id, APP_ID, DEPLOYER, <<first>> \o rest, InnerCreate(id), <<>>)
  IN << [AppCall(id, APP_ID, DEPLOYER, MintArgs(100, <<65, 49>>), InnerCreate(id), <<>>)
           EXCEPT !.tx_type = "pay"],
        AppCall(id, APP_ID, DEPLOYER, <<>>, InnerCreate(id), <<>>),
        Call(<<1, 2, 3, 4>>),
        Call(SubSeq(MINT_SELECTOR, 1, 3)),
        Call(MINT_SELECTOR \o <<0>>),
        Call(BAD_B64),
        AppCall(id, OTHER_APP_ID, DEPLOYER, MintArgs(100, <<65, 49>>), InnerCreate(id), <<>>) >>

\* Every shape of transaction `id`.
Shapes(id) == MintShapes(id) \o TransferShapes(id) \o OtherShapes(id)

\* --------------------------------------------------------- event classifier
\* Variant of Classify that compares only the first 4 bytes of the argument.
ClassifyByPrefix(txn) ==
  IF txn.tx_type # "appl" THEN "ignored"
  ELSE IF Len(txn.args) = 0 THEN "ignored"
  ELSE IF ~B64Ok(txn.args[1]) THEN "ignored"
  ELSE IF Slice(txn.args[1], 1, 4) = MINT_SELECTOR THEN "mint"
  ELSE IF Slice(txn.args[1], 1, 4) = TRANSFER_SELECTOR THEN "transfer"
  ELSE "ignored"

\* Variant of Classify that hands every call with an unknown first argument to
\* the mint handler.
ClassifyUnknownAsMint(txn) ==
  IF txn.tx_type # "appl" THEN "ignored"
  ELSE IF Len(txn.args) = 0 THEN "ignored"
  ELSE IF B64Ok(txn.args[1]) /\ txn.args[1] = TRANSFER_SELECTOR THEN "transfer"
  ELSE "mint"

\* _process_transaction: which handler a raw transaction is given to.
Classify(txn) ==
  IF txn.tx_type # "appl" THEN "ignored"
  ELSE IF Len(txn.args) = 0 THEN "ignored"
  ELSE IF ~B64Ok(txn.args[1]) THEN "ignored"
  ELSE IF txn.args[1] = MINT_SELECTOR THEN "mint"
  ELSE IF txn.args[1] = TRANSFER_SELECTOR THEN "transfer"
  ELSE "ignored"

\* ---------------------------------------------------------------- decoding
\* Position of the first inner transaction of type acfg, 0 when there is none.
FirstAcfg(inner) ==
  LET hits == {i \in 1..Len(inner) : inner[i].tx_type = "acfg"}
  IN IF hits = {} THEN 0 ELSE CHOOSE i \in hits : \A j \in hits : i <= j

\* Asset id taken from the inner transactions (NONE when not found).
AsaFromInner(txn) ==
  LET k == FirstAcfg(txn.inner)
  IN IF k = 0 THEN NONE ELSE PyOr(txn.inner[k].created, txn.inner[k].asset_id)

\* Asset id taken from the last log entry when it carries the return marker
\* (NONE when there is no log, when it does not decode, or without the marker).
AsaFromLogs(txn) ==
  IF Len(txn.logs) = 0 THEN NONE
  ELSE LET last_log == txn.logs[Len(txn.logs)]
       IN IF B64Ok(last_log) /\ Slice(last_log, 1, 4) = RETURN_MARKER
          THEN FromBytesBig(Slice(last_log, 5, 12))
          ELSE NONE

\* The asset id _handle_mint resolves (NONE: "could not extract ASA ID").
MintAsaId(txn) ==
  IF AsaFromInner(txn) # NONE THEN AsaFromInner(txn) ELSE AsaFromLogs(txn)

\* Variant of MintSeat that keeps the 2-byte length prefix.
MintSeatWithPrefix(txn) ==
  IF Len(txn.args) > 2 /\ B64Ok(txn.args[3]) THEN txn.args[3] ELSE SEAT_UNKNOWN

\* Variant of MintSeat that skips one byte instead of the 2-byte prefix.
MintSeatSkippingOneByte(txn) ==
  IF Len(txn.args) > 2 /\ B64Ok(txn.args[3]) THEN SliceFrom(txn.args[3], 2) ELSE SEAT_UNKNOWN

\* ticket_price decoded from the mint arguments: 0 when the argument is absent
\* or when its decoding raises (the handler of the try block only logs).
MintPrice(txn) ==
  IF Len(txn.args) > 1 /\ B64Ok(txn.args[2]) THEN FromBytesBig(txn.args[2]) ELSE 0

\* seat_number decoded from the mint arguments: the bytes after the 2-byte
\* prefix, "UNKNOWN" when the argument is absent or when the decoding of the
\* price or of the seat raised.
MintSeat(txn) ==
  IF /\ Len(txn.args) > 2
     /\ B64Ok(txn.args[2])
     /\ B64Ok(txn.args[3])
     /\ Utf8Valid(SliceFrom(txn.args[3], 3))
  THEN SliceFrom(txn.args[3], 3)
  ELSE SEAT_UNKNOWN

\* The asset id _handle_transfer extracts from the arguments (NONE when the
\* argument is absent or does not decode).
TransferAsaId(txn) ==
  IF Len(txn.args) > 1 /\ B64Ok(txn.args[2]) THEN FromBytesBig(txn.args[2]) ELSE NONE

\* ------------------------------------------------------------------- store
\* Variant of TicketsByAsa for a select without its where clause.
TicketsAnyAsa(asa) == 1..Len(tickets)

\* select(Ticket).where(Ticket.asa_id == asa): row positions that match.
TicketsByAsa(asa) == {i \in 1..Len(tickets) : tickets[i].asa_id = asa}

\* Variant of UniqueAsaOk for a column declared without unique=True.
NoUniqueConstraint(asa) == TRUE

\* The uniqueness constraint on Ticket.asa_id: may a row with this asset id
\* be inserted into the table as it is now?
UniqueAsaOk(asa) == TicketsByAsa(asa) = {}

\* The Ticket row built by _handle_mint.
PollerTicket(txn) ==
  [event_id |-> DEFAULT_EVENT_ID,
   seat_number |-> MintSeat(txn),
   asa_id |-> MintAsaId(txn),
   ticket_price |-> MintPrice(txn),
   status |-> "minted",
   current_owner_wallet |-> txn.sender,
   txn_id |-> txn.id]

\* The Ticket row built by the API mint flow from the request and the chain result.
ApiTicket(req) ==
  [event_id |-> API_EVENT_ID,
   seat_number |-> req.seat,
   asa_id |-> req.asa_id,
   ticket_price |-> req.price,
   status |-> "minted",
   current_owner_wallet |-> APP_ADDRESS,
   txn_id |-> req.txn_id]

\* Variant of TransferRow with the two wallets exchanged.
TransferRowReversed(tid, txn) ==
  [ticket_id |-> tid,
   from_wallet |-> txn.sender,
   to_wallet |-> tickets[tid].current_owner_wallet,
   price |-> 0,
   txn_id |-> txn.id,
   transfer_type |-> "resale",
   status |-> "confirmed"]

\* The Transfer row built by _handle_transfer for the ticket row at `tid`.
TransferRow(tid, txn) ==
  [ticket_id |-> tid,
   from_wallet |-> tickets[tid].current_owner_wallet,
   to_wallet |-> txn.sender,
   price |-> 0,
   txn_id |-> txn.id,
   transfer_type |-> "resale",
   status |-> "confirmed"]

NoPending == [kind |-> "none", txn |-> 0, tid |-> 0, from_wallet |-> ""]
NoApi == [state |-> "idle", asa_id |-> NONE, txn_id |-> NONE, price |-> 0, seat |-> <<>>]
NoCycle == [start |-> 0, min_round |-> 0, maxround |-> 0, outcome |-> "none"]
NoCall == [txn |-> 0, res |-> "none"]

\* Variant of AlreadySynced for a handler without the duplicate check.
NeverSynced(asa) == FALSE

\* Did the handler's select find a Ticket row (existing.scalar_one_or_none())?
AlreadySynced(asa) == TicketsByAsa(asa) # {}

\* -------------------------------------------------- EventTicketing contract
\* State of the deployed application: the global max_resale_price (not set
\* before the first mint), the holder of the single unit of every asset it
\* created, and the microAlgos its account received; `calls`, `last` and
\* `rejected` are history: the number of calls submitted, the last call with
\* its outcome, and the transfer calls rejected so far.
NoContractCall ==
  [method |-> "none", amount |-> 0, receiver |-> "", asset |-> 0, sender |-> "",
   ok |-> FALSE]
InitContract ==
  [max_resale_price |-> NONE, holder |-> <<>>, balance |-> 0, calls |-> 0,
   last |-> NoContractCall, rejected |-> {}]

\* mint_ticket(ticket_price, seat_number): the global is overwritten and the
\* inner asset configuration creates asset `asa`, whose unit the application
\* account holds.
MintTicket(c, price, asa, sender) ==
  [max_resale_price |-> price,
   holder |-> [a \in (DOMAIN c.holder) \cup {asa} |->
                 IF a = asa THEN APP_ADDRESS ELSE c.holder[a]],
   balance |-> c.balance,
   calls |-> c.calls + 1,
   last |-> [method |-> "mint_ticket", amount |-> price, receiver |-> "",
             asset |-> asa, sender |-> sender, ok |-> TRUE],
   rejected |-> c.rejected]

\* Variant of the price check that rejects a payment of exactly the cap.
PriceAllowedBelow(c, amount) ==
  c.max_resale_price # NONE /\ amount < c.max_resale_price

\* Variant of the price check that lets every amount pass.
PriceAllowedAny(c, amount) == TRUE

\* assert payment.amount <= self.max_resale_price (reading the global before
\* any mint fails as well).
PriceAllowed(c, amount) ==
  c.max_resale_price # NONE /\ amount <= c.max_resale_price

\* assert payment.receiver == Global.current_application_address
ReceiverAllowed(receiver) == receiver = APP_ADDRESS

\* The inner asset transfer of one unit goes through only if the application
\* account holds the unit (callers are opted in to the asset).
CanRelease(c, asset) ==
  asset \in DOMAIN c.holder /\ c.holder[asset] = APP_ADDRESS

\* transfer_ticket(payment, asset) in a group with its payment.  The group is
\* atomic: if the call fails, the payment is not made either.
TransferTicket(c, amount, receiver, asset, sender) ==
  LET accepted == /\ PriceAllowed(c, amount)
                  /\ ReceiverAllowed(receiver)
                  /\ CanRelease(c, asset)
      call == [method |-> "transfer_ticket", amount |-> amount, receiver |-> receiver,
               asset |-> asset, sender |-> sender, ok |-> accepted]
  IN IF accepted
     THEN [c EXCEPT !.holder[asset] = sender, !.balance = @ + amount,
                    !.calls = @ + 1, !.last = call]
     ELSE [c EXCEPT !.calls = @ + 1, !.last = call, !.rejected = @ \cup {call}]

\* -------------------------------------------------------------- the ledger
\* A mint_ticket call made directly against the contract (not through the API)
\* is confirmed: the contract creates a new asset.  `max` bounds the ledger.
ChainMint(max) ==
  /\ Len(ledger) < max
  /\ \E round \in NextRounds, price \in Prices, seat \in Seats :
       LET id == Len(ledger) + 1
       IN /\ ledger' = Append(ledger, MintTxn(id, round, DEPLOYER, price, seat, id))
          /\ contract' = MintTicket(contract, price, id, DEPLOYER)
  /\ block_open' = TRUE
  /\ UNCHANGED <<store, api, app_id, poller, epoch>>

\* A transfer_ticket call by a buyer is confirmed: the contract releases an
\* asset it still holds to the caller.
ChainTransfer(max) ==
  /\ Len(ledger) < max
  /\ \E round \in NextRounds, buyer \in Buyers, asa \in MintedAssets \ TransferredAssets :
       LET c == TransferTicket(contract, contract.max_resale_price, APP_ADDRESS,
                               asa, buyer)
       IN /\ c.last.ok
          /\ contract' = c
          /\ ledger' = Append(ledger, TransferTxn(Len(ledger) + 1, round, buyer, asa))
  /\ block_open' = TRUE
  /\ UNCHANGED <<store, api, app_id, poller, epoch>>

\* ------------------------------------------------------------ API mint flow
\* POST /tickets/mint, step 2: the on-chain mint is sent and confirmed; the
\* handler holds the chain result (asset id, transaction id, app address).
ApiMintOnChain(max) ==
  /\ api.state = "idle"
  /\ Len(ledger) < max
  /\ \E round \in NextRounds, price \in Prices, seat \in Seats :
       LET id == Len(ledger) + 1
       IN /\ ledger' = Append(ledger, MintTxn(id, round, DEPLOYER, price, seat, id))
          /\ contract' = MintTicket(contract, price, id, DEPLOYER)
          /\ api' = [state |-> "minted", asa_id |-> id, txn_id |-> id,
                     price |-> price, seat |-> seat]
  /\ block_open' = TRUE
  /\ UNCHANGED <<store, app_id, poller, epoch>>

\* Variant of ApiInsert that overwrites the row of an asset id already present.
ApiInsertUpsert(req) ==
  IF UniqueAsaOk(req.asa_id) THEN Append(tickets, ApiTicket(req))
  ELSE [i \in 1..Len(tickets) |->
          IF tickets[i].asa_id = req.asa_id THEN ApiTicket(req) ELSE tickets[i]]

\* Rows of the Ticket table after the API's insert: the row is added unless the
\* uniqueness constraint rejects it (IntegrityError, the request fails).
ApiInsert(req) ==
  IF UniqueAsaOk(req.asa_id) THEN Append(tickets, ApiTicket(req)) ELSE tickets

\* POST /tickets/mint, step 3: the Ticket row is added and flushed, and the
\* request's unit of work ends (the session dependency commits it).
ApiMintSave ==
  /\ api.state = "minted"
  /\ tickets' = ApiInsert(api)
  /\ api' = NoApi
  /\ UNCHANGED <<transfers, chain, app_id, poller, epoch>>

\* --------------------------------------------------------- poll scheduler
\* min_round of the query for a cursor value (0: the parameter is not sent).
MinRound(cursor) == IF cursor > 0 THEN cursor + 1 ELSE 0

\* Variant of Page for an indexer that answers newest first.
PageNewestFirst(min_round, limit) ==
  LET hits == SelectSeq([i \in 1..Len(ledger) |-> Len(ledger) + 1 - i],
                        LAMBDA i : ledger[i].app = app_id /\ ledger[i].round >= min_round)
  IN IF Len(hits) > limit THEN SubSeq(hits, 1, limit) ELSE hits

\* The indexer's response to search_transactions(application_id, min_round,
\* limit): the oldest transactions of the application with round >= min_round,
\* at most `limit` of them (as ledger positions).
Page(min_round, limit) ==
  LET hits == SelectSeq([i \in 1..Len(ledger) |-> i],
                        LAMBDA i : ledger[i].app = app_id /\ ledger[i].round >= min_round)
  IN IF Len(hits) > limit THEN SubSeq(hits, 1, limit) ELSE hits

\* Highest confirmed round among the transactions of a response.
MaxRound(resp) ==
  CHOOSE r \in {ledger[resp[i]].round : i \in 1..Len(resp)} :
    \A i \in 1..Len(resp) : ledger[resp[i]].round <= r

\* Variant of AdvanceCursor with the comparison inverted.
AdvanceCursorInverted(cursor, confirmed_round) ==
  IF confirmed_round < cursor THEN confirmed_round ELSE cursor

\* Variant of AdvanceCursor that leaves the cursor where it is.
CursorHeld(cursor, confirmed_round) == cursor

\* Cursor after a transaction with the given confirmed round was processed.
AdvanceCursor(cursor, confirmed_round) ==
  IF confirmed_round > cursor THEN confirmed_round ELSE cursor

\* Variant of CursorAfterError that rolls the cursor back to the cycle's start.
CursorRolledBack(cursor, cycle_start) == cycle_start

\* Variant of CursorAfterError that restarts the sync from genesis.
CursorResetToGenesis(cursor, cycle_start) == 0

\* Cursor after an exception reached _poll's handler (it only logs).
CursorAfterError(cursor, cycle_start) == cursor

\* Variant of PcAfterPollError for an exception that escapes start().
PcLoopTerminated == "exited"

\* Where the subscriber task goes after an exception inside a poll cycle: the
\* handlers of _poll and start() log it and the loop reaches its sleep.
PcAfterPollError == "sleep"

\* Variant of start() without the configuration check.
StartUnconfigured ==
  /\ pc = "init"
  /\ pc' = "poll"
  /\ running' = TRUE
  /\ UNCHANGED <<store, chain, api, app_id, last_round, batch, idx, pending,
                 epoch, handed, cycle, last>>

\* start(): the loop is entered only when the subscriber is configured.
Start ==
  /\ pc = "init"
  /\ IF app_id = 0
     THEN pc' = "exited" /\ running' = FALSE
     ELSE pc' = "poll" /\ running' = TRUE
  /\ UNCHANGED <<store, chain, api, app_id, last_round, batch, idx, pending,
                 epoch, handed, cycle, last>>

\* The sleep of the loop ends and `while self._running` is tested.
Wake ==
  /\ pc = "sleep"
  /\ pc' = IF running THEN "poll" ELSE "exited"
  /\ UNCHANGED <<store, chain, api, app_id, last_round, running, batch, idx,
                 pending, epoch, handed, cycle, last>>

\* _poll: the indexer call raises; the handler of _poll logs it.
PollQueryFail ==
  /\ pc = "poll"
  /\ pc' = PcAfterPollError
  /\ last_round' = CursorAfterError(last_round, last_round)
  /\ cycle' = [start |-> last_round, min_round |-> MinRound(last_round),
               maxround |-> 0, outcome |-> "query_error"]
  /\ UNCHANGED <<store, chain, api, app_id, running, batch, idx, pending,
                 epoch, handed, last>>

\* _poll: the indexer call returns; an empty response ends the cycle.
PollQuery ==
  /\ pc = "poll"
  /\ LET resp == Page(MinRound(last_round), PageLimit)
     IN IF Len(resp) = 0
        THEN /\ pc' = "sleep"
             /\ cycle' = [start |-> last_round, min_round |-> MinRound(last_round),
                          maxround |-> 0, outcome |-> "empty"]
             /\ UNCHANGED <<batch, idx>>
        ELSE /\ pc' = "batch"
             /\ batch' = resp
             /\ idx' = 1
             /\ cycle' = [start |-> last_round, min_round |-> MinRound(last_round),
                          maxround |-> MaxRound(resp), outcome |-> "running"]
  /\ block_open' = FALSE
  /\ UNCHANGED <<store, ledger, contract, api, app_id, last_round, running, pending,
                 epoch, handed, last>>

\* The loop body of _poll after the handler of batch[idx] returned with result
\* `res`: the cursor follows the transaction's round and the loop moves on (or
\* the cycle ends).
FinishTxn(txn, res) ==
  /\ last_round' = AdvanceCursor(last_round, txn.round)
  /\ pending' = NoPending
  /\ last' = [txn |-> txn.id, res |-> res]
  /\ IF idx = Len(batch)
     THEN /\ pc' = "sleep"
          /\ batch' = <<>>
          /\ idx' = 0
          /\ cycle' = [cycle EXCEPT !.outcome = "ok"]
     ELSE /\ pc' = "batch"
          /\ idx' = idx + 1
          /\ UNCHANGED <<batch, cycle>>

\* An exception raised while `txn` is processed leaves the for loop and is
\* caught by _poll's handler: the rest of the batch is not processed.
FailCycle(txn, kind) ==
  /\ last_round' = CursorAfterError(last_round, cycle.start)
  /\ pending' = NoPending
  /\ last' = [txn |-> txn.id, res |-> kind]
  /\ pc' = PcAfterPollError
  /\ batch' = <<>>
  /\ idx' = 0
  /\ cycle' = [cycle EXCEPT !.outcome = kind]

\* Result of a handler call that returns before any store access, "" when the
\* handler goes on to its select.
EarlyResult(txn) ==
  IF Classify(txn) = "ignored" THEN "ignored"
  ELSE IF Classify(txn) = "mint" /\ MintAsaId(txn) = NONE THEN "unresolved"
  ELSE IF Classify(txn) = "transfer" /\ TransferAsaId(txn) = NONE THEN "skipped_undecodable"
  ELSE ""

\* _process_transaction for batch[idx], up to the return of the first await of
\* its handler: classification, decoding, and the handler's select.
ProcessTxn ==
  /\ pc = "batch"
  /\ LET txn == ledger[batch[idx]]
         kind == Classify(txn)
     IN /\ handed' = handed \cup {txn.id}
        /\ IF EarlyResult(txn) # ""
           THEN FinishTxn(txn, EarlyResult(txn))
           ELSE IF kind = "mint"
           THEN IF AlreadySynced(MintAsaId(txn))
                THEN FinishTxn(txn, "skipped_duplicate")
                ELSE /\ pc' = "mint_commit"
                     /\ pending' = [kind |-> "mint", txn |-> batch[idx],
                                    tid |-> 0, from_wallet |-> ""]
                     /\ UNCHANGED <<last_round, batch, idx, cycle, last>>
           ELSE IF ~AlreadySynced(TransferAsaId(txn))
                THEN FinishTxn(txn, "skipped_not_found")
                ELSE LET tid == CHOOSE i \in TicketsByAsa(TransferAsaId(txn)) : TRUE
                     IN /\ pc' = "transfer_commit"
                        /\ pending' = [kind |-> "transfer", txn |-> batch[idx],
                                       tid |-> tid,
                                       from_wallet |-> tickets[tid].current_owner_wallet]
                        /\ UNCHANGED <<last_round, batch, idx, cycle, last>>
  /\ UNCHANGED <<store, chain, api, app_id, running, epoch>>

\* _handle_mint, session.add + commit: the row is inserted unless the
\* uniqueness constraint on asa_id rejects it (IntegrityError).
MintCommit ==
  /\ pc = "mint_commit"
  /\ LET txn == ledger[pending.txn]
     IN IF ~UniqueAsaOk(MintAsaId(txn))
        THEN FailCycle(txn, "integrity_error") /\ UNCHANGED tickets
        ELSE tickets' = Append(tickets, PollerTicket(txn)) /\ FinishTxn(txn, "applied")
  /\ UNCHANGED <<transfers, chain, api, app_id, running, epoch, handed>>

\* Variant of TransferCommit that records the transfer but leaves the Ticket
\* as it was.
TransferCommitRowOnly ==
  /\ pc = "transfer_commit"
  /\ LET txn == ledger[pending.txn]
         tid == pending.tid
     IN /\ transfers' = Append(transfers,
               [TransferRow(tid, txn) EXCEPT !.from_wallet = pending.from_wallet])
        /\ FinishTxn(txn, "applied")
  /\ UNCHANGED <<tickets, chain, api, app_id, running, epoch, handed>>

\* Variant of TransferCommit that keeps only the latest Transfer row.
TransferCommitOverwriting ==
  /\ pc = "transfer_commit"
  /\ LET txn == ledger[pending.txn]
         tid == pending.tid
     IN /\ transfers' = << [TransferRow(tid, txn) EXCEPT !.from_wallet = pending.from_wallet] >>
        /\ tickets' = [tickets EXCEPT ![tid].current_owner_wallet = txn.sender,
                                      ![tid].status = "transferred"]
        /\ FinishTxn(txn, "applied")
  /\ UNCHANGED <<chain, api, app_id, running, epoch, handed>>

\* _handle_transfer, session.add + ownership update + commit.
TransferCommit ==
  /\ pc = "transfer_commit"
  /\ LET txn == ledger[pending.txn]
         tid == pending.tid
     IN /\ transfers' = Append(transfers,
               [TransferRow(tid, txn) EXCEPT !.from_wallet = pending.from_wallet])
        /\ tickets' = [tickets EXCEPT ![tid].current_owner_wallet = txn.sender,
                                      ![tid].status = "transferred"]
        /\ FinishTxn(txn, "applied")
  /\ UNCHANGED <<chain, api, app_id, running, epoch, handed>>

\* Variant of StoreFault for a store without transactions: a failing commit of
\* _handle_transfer leaves the Transfer row written and the Ticket as it was.
StoreFaultHalfWritten ==
  /\ pc \in {"batch", "mint_commit", "transfer_commit"}
  /\ pc = "batch" => EarlyResult(ledger[batch[idx]]) = ""
  /\ LET txn == IF pc = "batch" THEN ledger[batch[idx]] ELSE ledger[pending.txn]
     IN /\ handed' = handed \cup {txn.id}
        /\ FailCycle(txn, "store_error")
        /\ transfers' = IF pc = "transfer_commit"
                         THEN Append(transfers, TransferRow(pending.tid, txn))
                         ELSE transfers
  /\ UNCHANGED <<tickets, chain, api, app_id, running, epoch>>

\* The store raises on the statement a handler awaits (its select, or its
\* commit, which then writes nothing): the exception leaves the handler and
\* _process_transaction and reaches _poll's handler.
StoreFault ==
  /\ pc \in {"batch", "mint_commit", "transfer_commit"}
  /\ pc = "batch" => EarlyResult(ledger[batch[idx]]) = ""
  /\ LET txn == IF pc = "batch" THEN ledger[batch[idx]] ELSE ledger[pending.txn]
     IN /\ handed' = handed \cup {txn.id}
        /\ FailCycle(txn, "store_error")
  /\ UNCHANGED <<store, chain, api, app_id, running, epoch>>

\* The subscriber task is suspended at an await (or has not run yet): the
\* sleep of the loop, the select of the handler of batch[idx], or a commit.
\* From the test of the loop to the first await of a cycle the code runs
\* without giving up the event loop.
TaskSuspended ==
  \/ pc \in {"init", "sleep", "mint_commit", "transfer_commit"}
  \/ pc = "batch" /\ EarlyResult(ledger[batch[idx]]) = ""

\* Shutdown of the host (lifespan, after the yield): stop() clears the running
\* flag and the subscriber task is cancelled at the await it is suspended on.
Shutdown ==
  /\ TaskSuspended
  /\ running' = FALSE
  /\ pc' = "cancelling"
  /\ UNCHANGED <<store, chain, api, app_id, last_round, batch, idx, pending,
                 epoch, handed, cycle, last>>

\* Variant of Cancelled for a cancellation that does not end the task: the
\* loop sets its flag and goes on with a new cycle.
CancelledResumes ==
  /\ pc = "cancelling"
  /\ pc' = "poll"
  /\ running' = TRUE
  /\ batch' = <<>>
  /\ idx' = 0
  /\ pending' = NoPending
  /\ UNCHANGED <<store, chain, api, app_id, last_round, epoch, handed, cycle, last>>

\* CancelledError is raised at the await: it is not an Exception, so neither
\* handler catches it and the task ends where it was; a commit that was
\* awaited writes nothing.
Cancelled ==
  /\ pc = "cancelling"
  /\ pc' = "exited"
  /\ batch' = <<>>
  /\ idx' = 0
  /\ pending' = NoPending
  /\ cycle' = IF cycle.outcome = "running"
              THEN [cycle EXCEPT !.outcome = "cancelled"] ELSE cycle
  /\ UNCHANGED <<store, chain, api, app_id, last_round, running, epoch, handed, last>>

\* The host process is started again after the loop has exited: a new
\* ChainSubscriber is constructed (cursor 0); ledger and store persist.
Restart ==
  /\ pc = "exited"
  /\ api.state = "idle"
  /\ epoch < MaxRestarts
  /\ epoch' = epoch + 1
  /\ last_round' = 0
  /\ running' = FALSE
  /\ pc' = "init"
  /\ batch' = <<>>
  /\ idx' = 0
  /\ pending' = NoPending
  /\ cycle' = NoCycle
  /\ last' = NoCall
  /\ UNCHANGED <<store, chain, api, app_id, handed>>

\* ------------------------------------------------------------ specifications
Init ==
  /\ ledger = <<>>
  /\ block_open = FALSE
  /\ tickets = <<>>
  /\ transfers = <<>>
  /\ api = NoApi
  /\ app_id \in {0, APP_ID}
  /\ last_round = 0
  /\ running = FALSE
  /\ pc = "init"
  /\ batch = <<>>
  /\ idx = 0
  /\ pending = NoPending
  /\ epoch = 0
  /\ handed = {}
  /\ cycle = NoCycle
  /\ last = NoCall
  /\ contract = InitContract

\* Steps of the subscriber task.
PollerStep ==
  \/ Start
  \/ Wake
  \/ PollQueryFail
  \/ PollQuery
  \/ ProcessTxn
  \/ MintCommit
  \/ TransferCommit
  \/ StoreFault
  \/ Cancelled

\* The whole system: ledger, API mint flow, subscriber, host restarts.
Next ==
  \/ ChainMint(MaxTxns)
  \/ ChainTransfer(MaxTxns)
  \/ ApiMintOnChain(MaxTxns)
  \/ ApiMintSave
  \/ Shutdown
  \/ Restart
  \/ PollerStep

Spec == Init /\ [][Next]_vars

\* The event loop runs the subscriber task whenever it can take a step.
TaskFairness == WF_vars(PollerStep)

\* In addition, neither the indexer nor the store fails forever.
Fairness ==
  /\ TaskFairness
  /\ SF_vars(PollQuery)
  /\ SF_vars(ProcessTxn)
  /\ SF_vars(MintCommit)
  /\ SF_vars(TransferCommit)

FairSpec == Spec /\ TaskFairness

\* The subscriber alone against a ledger one transaction longer than a page.
NextPage ==
  \/ ChainMint(PageLimit + 1)
  \/ ChainTransfer(PageLimit + 1)
  \/ Shutdown
  \/ PollerStep

FairSpecPage == Init /\ [][NextPage]_vars /\ Fairness

\* The subscriber of a configured deployment started against a ledger that
\* already holds transactions of any shape, each in a round of its own; neither
\* the indexer nor the store fails.
InitShapes ==
  /\ \E n \in 0..MaxTxns :
       \E k \in [1..n -> 1..Len(Shapes(1))] :
         ledger = [i \in 1..n |-> Shapes(i)[k[i]]]
  /\ block_open = FALSE
  /\ tickets = <<>>
  /\ transfers = <<>>
  /\ api = NoApi
  /\ app_id = APP_ID
  /\ last_round = 0
  /\ running = FALSE
  /\ pc = "init"
  /\ batch = <<>>
  /\ idx = 0
  /\ pending = NoPending
  /\ epoch = 0
  /\ handed = {}
  /\ cycle = NoCycle
  /\ last = NoCall
  /\ contract = InitContract

NextShapes ==
  \/ Start
  \/ Wake
  \/ PollQuery
  \/ ProcessTxn
  \/ MintCommit
  \/ TransferCommit

SpecShapes == InitShapes /\ [][NextShapes]_vars

\* -------------------------------------------------- byte-level inputs
\* Values carried by uint64 arguments and return logs.
ByteValues == {1, 300}

\* Buffers that hold `v` big-endian in 0..MaxWidth bytes (the high bytes are
\* cut off when the width is too small).
UintBuffers == {ToBytesBig(v, w) : v \in ByteValues, w \in 0..MaxWidth}

\* Log entries: the return marker, another marker or a cut marker, followed
\* by a value buffer.
LogBuffers ==
  {m \o b : m \in {RETURN_MARKER, <<1, 2, 3, 4>>, SubSeq(RETURN_MARKER, 1, 3)},
            b \in UintBuffers}

\* Seat buffers: every byte string of at most MaxSeatLen + 1 bytes over NUL,
\* STX and "A" (so that the first two bytes declare the lengths 0, 2, 65, ...).
SeatBuffers == UNION {[1..k -> {0, 2, 65}] : k \in 0..(MaxSeatLen + 1)}

\* Seat labels of at most n characters over "A" and the two-byte "e acute".
RECURSIVE SeatStrings(_)
SeatStrings(n) ==
  IF n = 0 THEN {<<>>}
  ELSE SeatStrings(n - 1)
         \cup {s \o c : s \in SeatStrings(n - 1), c \in {<<65>>, <<195, 169>>}}

\* Ledgers that put one buffer in front of a decoder: a mint whose asset id is
\* only in its log, a mint with a price buffer, a mint with a seat buffer, a
\* mint with an encoded seat label, and a well-formed mint of asset 1 followed
\* by a transfer with an asset-id buffer.
ByteLedgers ==
  LET seat == EncodeArc4String(<<65, 49>>)
      price == EncodeUint64(100)
      Mint(args, inner, logs) == AppCall(1, APP_ID, DEPLOYER, args, inner, logs)
  IN {<<Mint(<<MINT_SELECTOR, price, seat>>, <<>>, <<l>>)>> : l \in LogBuffers}
     \cup {<<Mint(<<MINT_SELECTOR, b, seat>>, InnerCreate(1), <<>>)>> : b \in UintBuffers}
     \cup {<<Mint(<<MINT_SELECTOR, price, b>>, InnerCreate(1), <<>>)>> : b \in SeatBuffers}
     \cup {<<Mint(<<MINT_SELECTOR, price, EncodeArc4String(t)>>, InnerCreate(1), <<>>)>> :
              t \in SeatStrings(MaxSeatLen)}
     \cup {<<MintShapes(1)[1],
              AppCall(2, APP_ID, "BUYER1", <<TRANSFER_SELECTOR, b>>, <<>>, <<>>)>> :
              b \in UintBuffers}

\* The subscriber of a configured deployment started against one of these
\* ledgers; neither the indexer nor the store fails.
InitBytes ==
  /\ ledger \in ByteLedgers
  /\ block_open = FALSE
  /\ tickets = <<>>
  /\ transfers = <<>>
  /\ api = NoApi
  /\ app_id = APP_ID
  /\ last_round = 0
  /\ running = FALSE
  /\ pc = "init"
  /\ batch = <<>>
  /\ idx = 0
  /\ pending = NoPending
  /\ epoch = 0
  /\ handed = {}
  /\ cycle = NoCycle
  /\ last = NoCall
  /\ contract = InitContract

SpecBytes == InitBytes /\ [][NextShapes]_vars

\* The contract alone, called directly: any caller, any payment amount and
\* receiver, any asset id.  Every call is confirmed in a round of its own; a
\* rejected call leaves no transaction on the ledger.
ContractPrices == {100, 500}
Amounts == {100, 500}
Receivers == {APP_ADDRESS, DEPLOYER}
Callers == {"SCALPER", "FAN"}

CallMint ==
  /\ contract.calls < MaxCalls
  /\ \E price \in ContractPrices, seat \in Seats :
       LET id == Len(ledger) + 1
       IN /\ ledger' = Append(ledger, MintTxn(id, id, DEPLOYER, price, seat, id))
          /\ contract' = MintTicket(contract, price, id, DEPLOYER)
  /\ UNCHANGED <<block_open, store, api, app_id, poller, epoch>>

CallTransfer ==
  /\ contract.calls < MaxCalls
  /\ \E amount \in Amounts, receiver \in Receivers, asset \in 1..MaxCalls,
        sender \in Callers :
       LET c == TransferTicket(contract, amount, receiver, asset, sender)
           id == Len(ledger) + 1
       IN /\ contract' = c
          /\ ledger' = IF c.last.ok
                        THEN Append(ledger, TransferTxn(id, id, sender, asset))
                        ELSE ledger
  /\ UNCHANGED <<block_open, store, api, app_id, poller, epoch>>

InitCalls == Init /\ app_id = APP_ID

NextCalls == CallMint \/ CallTransfer

SpecContract == InitCalls /\ [][NextCalls]_vars

\* ------------------------------------------------------------------ claims
\* Outcomes of a cycle in which processing a transaction raised.
ProcessErrors == {"store_error", "integrity_error"}
ErrorOutcomes == ProcessErrors \cup {"query_error"}

\* C1: the cursor advance is all-or-nothing per batch.  After a cycle whose
\* every transaction was processed the cursor is the batch's maximum round;
\* after a cycle in which processing a transaction raised, the cursor is the
\* value it had before the batch.
C1_AllOrNothing ==
  /\ cycle.outcome = "ok" => last_round = cycle.maxround
  /\ cycle.outcome \in ProcessErrors => last_round = cycle.start

\* C2: the cursor of a process never decreases, whatever the cycles do
\* (succeed, find nothing, fail at the query, fail mid-batch).
C2_CursorMonotonic == [][epoch' = epoch => last_round' >= last_round]_vars

\* C2 witness: a cycle failed mid-batch after the cursor had moved.
C2_Witness == cycle.outcome \in ProcessErrors /\ last_round > 0

\* C3: no confirmed transaction is dropped.  While the scheduler runs, every
\* transaction on the ledger is eventually passed to reconciliation, whatever
\* the query failures, the mid-batch failures and the page cuts.
C3_NoTransactionDropped ==
  \A i \in 1..(PageLimit + 1) :
    [](Len(ledger) >= i => <>(i \in handed \/ pc = "exited"))


\* A step of the subscriber that handles batch[idx] up to its select.
HandlesTxn == pc = "batch" /\ (pc' # "batch" \/ idx' # idx) /\ pc' # "cancelling"

\* C4: reconcile_mint is idempotent.  A mint whose asset id already has a
\* Ticket row (from an earlier application of the same mint, or from the API)
\* is Skipped(duplicate) and leaves the store as it was, so one row remains.
C4_MintIdempotent ==
  [][ (/\ HandlesTxn
       /\ Classify(ledger[batch[idx]]) = "mint"
       /\ MintAsaId(ledger[batch[idx]]) # NONE
       /\ TicketsByAsa(MintAsaId(ledger[batch[idx]])) # {}
       /\ last'.res # "store_error")
      => (/\ last' = [txn |-> batch[idx], res |-> "skipped_duplicate"]
          /\ tickets' = tickets
          /\ transfers' = transfers
          /\ Cardinality(TicketsByAsa(MintAsaId(ledger[batch[idx]]))) = 1) ]_vars

\* C4 witness: after a restart the subscriber saw again a mint whose row it had
\* inserted itself, and skipped it.
C4_Witness ==
  /\ epoch > 0
  /\ last.res = "skipped_duplicate"
  /\ \E i \in 1..Len(tickets) :
       tickets[i].txn_id = last.txn /\ tickets[i].current_owner_wallet = DEPLOYER

\* C5: reconcile_transfer is idempotent.  However often the same transfer
\* transaction is reconciled, the Transfer log holds one row with its id.
C5_TransferIdempotent ==
  \A i, j \in 1..Len(transfers) : transfers[i].txn_id = transfers[j].txn_id => i = j

\* C6: there is at most one Ticket row per asset id, however the subscriber's
\* mint reconciliation and the API mint flow interleave.
C6_OneTicketPerAsset ==
  \A i, j \in 1..Len(tickets) : tickets[i].asa_id = tickets[j].asa_id => i = j

\* C6 witness: both writers tried to insert a row for the same asset; the API's
\* row is there and the subscriber's insert was rejected.
C6_Witness ==
  /\ last.res = "integrity_error"
  /\ \E i \in 1..Len(tickets) :
       /\ tickets[i].txn_id = last.txn
       /\ tickets[i].current_owner_wallet = APP_ADDRESS

\* C7: the duplicate check and the insert of reconcile_mint are atomic with
\* respect to the API mint flow: a mint reconciliation ends Applied or
\* Skipped(duplicate), never with its insert rejected by the uniqueness
\* constraint after its check had passed.
C7_CheckAndInsertAtomic ==
  last.res # "integrity_error" /\ cycle.outcome # "integrity_error"

\* C8: a cycle that fails at the query leaves the cursor and the store as they
\* were, and the query of the next cycle uses the min_round of the failed one.
C8_QueryFailureRetriesWindow ==
  [][ /\ (pc = "poll" /\ pc' = "sleep" /\ cycle'.outcome = "query_error")
           => (last_round' = last_round /\ tickets' = tickets /\ transfers' = transfers)
      /\ (pc = "poll" /\ pc' # "poll" /\ cycle.outcome = "query_error")
           => cycle'.min_round = cycle.min_round ]_vars

\* C8 witness: a query is being retried for a window past genesis.
C8_Witness ==
  pc = "poll" /\ cycle.outcome = "query_error" /\ cycle.min_round > 0 /\ Len(tickets) > 0

\* C9: no error inside a poll cycle stops the loop.  After a cycle that failed
\* (at the query or while processing), and while stop() has not been called,
\* another poll cycle starts.
C9_LoopSurvivesErrors ==
  (cycle.outcome \in ErrorOutcomes /\ running) ~> (pc = "poll" \/ ~running)

\* C9 witness: a new cycle is starting after a cycle that failed mid-batch.
C9_Witness == pc = "poll" /\ running /\ cycle.outcome \in ProcessErrors

\* C10: the cursor is 0 before the first cycle of a process, the maximum
\* confirmed round of the batch after a cycle that processed every transaction
\* of a non-empty batch, and unchanged after an empty response.
C10_CursorAfterCycle ==
  /\ cycle.outcome = "none" => last_round = 0
  /\ cycle.outcome = "ok" => last_round = cycle.maxround
  /\ cycle.outcome = "empty" => last_round = cycle.start

\* C10 witness: a cycle that started past genesis processed its whole batch.
C10_Witness ==
  cycle.outcome = "ok" /\ cycle.maxround > cycle.start /\ cycle.start > 0

\* The transaction being handled when pc = "batch".
CurTxn == ledger[batch[idx]]

\* No Ticket row carries this asset id.
NoTicketFor(asa) == \A i \in 1..Len(tickets) : tickets[i].asa_id # asa

\* C11: reconcile_transfer for an asset id with no Ticket row is
\* Skipped(ticket_not_found): no Transfer row is written, no Ticket row is
\* created or changed, and the poll cycle goes on without an error.
C11_TransferNotFoundSkipped ==
  [][ (/\ HandlesTxn
       /\ Classify(CurTxn) = "transfer"
       /\ TransferAsaId(CurTxn) # NONE
       /\ NoTicketFor(TransferAsaId(CurTxn)))
      => (/\ last' = [txn |-> CurTxn.id, res |-> "skipped_not_found"]
          /\ tickets' = tickets
          /\ transfers' = transfers
          /\ cycle'.outcome \in {"running", "ok"}
          /\ pc' \in {"batch", "sleep"}) ]_vars

\* C11 witness: a transfer of an asset without a row was skipped while the
\* table held a row for another asset.
C11_Witness ==
  /\ last.res = "skipped_not_found"
  /\ tickets # <<>>
  /\ transfers = <<>>
  /\ NoTicketFor(TransferAsaId(ledger[last.txn]))

\* C12: reconcile_transfer for an asset whose Ticket exists appends exactly one
\* Transfer row with from = the Ticket's owner before the call, to = the
\* sender of the transaction and its transaction id; afterwards the Ticket's
\* owner is the sender and its status is transferred, and no other row changed.
C12_TransferApplied ==
  [][ (pc = "transfer_commit" /\ pc' \notin {"transfer_commit", "cancelling"}
         /\ last'.res = "applied")
      => LET txn == ledger[pending.txn]
             tid == CHOOSE i \in 1..Len(tickets) : tickets[i].asa_id = TransferAsaId(txn)
             row == transfers'[Len(transfers')]
         IN /\ Len(transfers') = Len(transfers) + 1
            /\ SubSeq(transfers', 1, Len(transfers)) = transfers
            /\ row.ticket_id = tid
            /\ row.from_wallet = tickets[tid].current_owner_wallet
            /\ row.to_wallet = txn.sender
            /\ row.txn_id = txn.id
            /\ tickets' = [tickets EXCEPT ![tid].current_owner_wallet = txn.sender,
                                          ![tid].status = "transferred"] ]_vars

\* C12 witness: a transfer was applied to a ticket and moved it from its first
\* owner to the buyer.
C12_Witness ==
  /\ last.res = "applied"
  /\ Len(transfers) = 1
  /\ transfers[1].txn_id = last.txn
  /\ transfers[1].from_wallet # transfers[1].to_wallet
  /\ tickets[transfers[1].ticket_id].current_owner_wallet = transfers[1].to_wallet
  /\ tickets[transfers[1].ticket_id].status = "transferred"

\* Price and seat of the well-formed mint calls among the shapes.
MintInputs == { <<100, <<65, 49>> >>, <<300, <<86, 73, 80, 45, 49>> >> }

\* `txn` is a mint call with the 8-byte price and the ARC-4 seat of `input` as
\* arguments and an inner acfg transaction that created asset `asa`.
IsMintOf(txn, input, asa) ==
  /\ txn.tx_type = "appl"
  /\ txn.args = MintArgs(input[1], input[2])
  /\ FirstAcfg(txn.inner) # 0
  /\ txn.inner[FirstAcfg(txn.inner)].created = asa

\* C13: a mint call with an 8-byte big-endian price, an ARC-4 string seat and
\* an inner acfg transaction with created-asset-index = a, when no Ticket with
\* asset id a exists, creates exactly one Ticket row with asa_id = a, the
\* price and the seat that were encoded, status minted and the call's id.
C13_MintCreatesTicket ==
  [][ \A input \in MintInputs, asa \in 1..MaxTxns :
        /\ (HandlesTxn /\ IsMintOf(CurTxn, input, asa) /\ NoTicketFor(asa))
              => (pc' = "mint_commit" /\ pending'.txn = batch[idx] /\ tickets' = tickets)
        /\ (pc = "mint_commit" /\ pc' # "mint_commit"
               /\ IsMintOf(ledger[pending.txn], input, asa) /\ NoTicketFor(asa))
              => /\ Len(tickets') = Len(tickets) + 1
                 /\ SubSeq(tickets', 1, Len(tickets)) = tickets
                 /\ tickets'[Len(tickets')].asa_id = asa
                 /\ tickets'[Len(tickets')].ticket_price = input[1]
                 /\ tickets'[Len(tickets')].seat_number = input[2]
                 /\ tickets'[Len(tickets')].status = "minted"
                 /\ tickets'[Len(tickets')].txn_id = ledger[pending.txn].id ]_vars

\* C13 witness: the mint of seat "VIP-1" at price 300, whose asset creation is
\* the second inner transaction, has its row.
C13_Witness ==
  /\ last.res = "applied"
  /\ \E i \in 1..Len(tickets) :
       /\ tickets[i].txn_id = last.txn
       /\ tickets[i].asa_id = last.txn
       /\ tickets[i].ticket_price = 300
       /\ tickets[i].seat_number = <<86, 73, 80, 45, 49>>

\* C14: a Ticket row inserted by reconcile_mint has as owner the contract's
\* custody (application) address, not the sender of the mint call.
C14_MintOwnerIsCustody ==
  [][ (pc = "mint_commit" /\ Len(tickets') = Len(tickets) + 1)
      => tickets'[Len(tickets')].current_owner_wallet = APP_ADDRESS ]_vars

\* C15: the asset id of a mint is the created-asset-index of the inner
\* asset-configuration transaction when that is present; only when it is
\* absent, it is the value of the ABI return log; it is never taken from any
\* other field.  Stated on the row the handler inserts.
C15_AssetIdResolutionOrder ==
  [][ (pc = "mint_commit" /\ Len(tickets') = Len(tickets) + 1)
      => LET txn == ledger[pending.txn]
             k == FirstAcfg(txn.inner)
             asa == tickets'[Len(tickets')].asa_id
         IN IF k # 0 /\ txn.inner[k].created # NONE
            THEN asa = txn.inner[k].created
            ELSE /\ Len(txn.logs) > 0
                 /\ B64Ok(txn.logs[Len(txn.logs)])
                 /\ Slice(txn.logs[Len(txn.logs)], 1, 4) = RETURN_MARKER
                 /\ asa = FromBytesBig(Slice(txn.logs[Len(txn.logs)], 5, 12)) ]_vars

\* The inner asset-configuration transaction of `txn` reports a created asset.
HasCreatedAsset(txn) ==
  FirstAcfg(txn.inner) # 0 /\ txn.inner[FirstAcfg(txn.inner)].created # NONE

\* The last log of `txn` is a valid return log: it decodes, starts with the
\* return marker and holds the 8 bytes of the value after it.
HasValidReturnLog(txn) ==
  /\ Len(txn.logs) > 0
  /\ B64Ok(txn.logs[Len(txn.logs)])
  /\ Len(txn.logs[Len(txn.logs)]) >= 12
  /\ Slice(txn.logs[Len(txn.logs)], 1, 4) = RETURN_MARKER

\* C16: a mint whose asset id is yielded neither by the inner transaction's
\* created-asset-index nor by a valid return log is dropped: the handler
\* returns before its select, no Ticket row is created for it, and no Ticket
\* with asset id 0 is ever created from a mint.
C16_UnresolvableMintDropped ==
  [][ /\ (HandlesTxn /\ Classify(CurTxn) = "mint"
             /\ ~HasCreatedAsset(CurTxn) /\ ~HasValidReturnLog(CurTxn))
            => (/\ last' = [txn |-> CurTxn.id, res |-> "unresolved"]
                /\ pc' # "mint_commit"
                /\ tickets' = tickets)
      /\ (pc = "mint_commit" /\ Len(tickets') = Len(tickets) + 1)
            => tickets'[Len(tickets')].asa_id # 0 ]_vars

\* An argument of a mint or transfer call fails to decode: the price or the
\* asset id is not base64, the seat is not base64 or not UTF-8.
ArgFailsToDecode(txn) ==
  \/ /\ Classify(txn) = "mint"
     /\ \/ Len(txn.args) > 1 /\ ~B64Ok(txn.args[2])
        \/ Len(txn.args) > 2 /\ ~B64Ok(txn.args[3])
        \/ Len(txn.args) > 2 /\ B64Ok(txn.args[3]) /\ ~Utf8Valid(SliceFrom(txn.args[3], 3))
  \/ /\ Classify(txn) = "transfer"
     /\ Len(txn.args) > 1 /\ ~B64Ok(txn.args[2])

\* C17: a mint or transfer with an argument that fails to decode is skipped
\* without any write to the store (its handler does not reach its insert),
\* and the loop goes on to the next transaction of the batch.
C17_MalformedSkipped ==
  [][ (HandlesTxn /\ ArgFailsToDecode(CurTxn))
      => (/\ pc' \notin {"mint_commit", "transfer_commit"}
          /\ tickets' = tickets
          /\ transfers' = transfers
          /\ last'.txn = CurTxn.id
          /\ IF idx < Len(batch) THEN pc' = "batch" /\ idx' = idx + 1
                                 ELSE cycle'.outcome = "ok") ]_vars

\* Ledger positions of the mints whose asset id the handler cannot resolve.
UnresolvableMints ==
  {i \in 1..Len(ledger) : Classify(ledger[i]) = "mint" /\ MintAsaId(ledger[i]) = NONE}

\* C18: an unresolvable mint does not hold the cursor back.  Once a batch that
\* contained one has been processed without error, the cursor is the batch's
\* maximum round, and from then on every query starts after the mint's round.
C18_UnresolvedMintPassed ==
  \A i \in 1..MaxTxns :
    []( (i \in handed /\ i \in UnresolvableMints /\ cycle.outcome = "ok")
        => /\ last_round = cycle.maxround
           /\ [](i <= Len(ledger) => MinRound(last_round) > ledger[i].round) )

\* C18 witness: a batch of an applied mint and an unresolvable one ended
\* without error, and the next cycle found nothing to fetch.
C18_Witness ==
  /\ cycle.outcome = "empty"
  /\ Len(tickets) = 1
  /\ \E i \in handed \cap UnresolvableMints : cycle.min_round > ledger[i].round

\* `txn` is an application call to the configured application whose first
\* argument is exactly the selector `sel`.
IsSelectorCall(txn, sel) ==
  /\ txn.tx_type = "appl"
  /\ txn.app = app_id
  /\ Len(txn.args) >= 1
  /\ txn.args[1] = sel

\* Which handler a step that handled `txn` entered, from the subscriber's
\* position `p` and last result `l` after the step: a handler either is
\* suspended at its commit or has returned with one of its results.
EnteredMint(txn, p, l) ==
  \/ p = "mint_commit"
  \/ l.txn = txn.id /\ l.res \in {"unresolved", "skipped_duplicate"}
EnteredTransfer(txn, p, l) ==
  \/ p = "transfer_commit"
  \/ l.txn = txn.id /\ l.res \in {"skipped_undecodable", "skipped_not_found"}
WasIgnored(txn, p, l) ==
  p \notin {"mint_commit", "transfer_commit"} /\ l = [txn |-> txn.id, res |-> "ignored"]

IsOtherTxn(txn) ==
  ~IsSelectorCall(txn, MINT_SELECTOR) /\ ~IsSelectorCall(txn, TRANSFER_SELECTOR)

\* C20: processing a transaction classified as Ignored has no effect.  The
\* call returns at once with nothing pending and both tables as they were, and
\* no row of either table ever stems from such a transaction.
C20_IgnoredHasNoEffect ==
  [][ /\ (HandlesTxn /\ IsOtherTxn(CurTxn))
           => (/\ last' = [txn |-> CurTxn.id, res |-> "ignored"]
               /\ pending' = NoPending
               /\ pc' \notin {"mint_commit", "transfer_commit"}
               /\ tickets' = tickets
               /\ transfers' = transfers)
      /\ \A i \in 1..Len(tickets') : ~IsOtherTxn(ledger[tickets'[i].txn_id])
      /\ \A i \in 1..Len(transfers') : ~IsOtherTxn(ledger[transfers'[i].txn_id]) ]_vars

\* C20 witness: a call with an unknown 4-byte selector, carrying the arguments
\* and the inner transaction of a mint, was ignored after another
\* transaction's row had been written; the batch ended without error.
C20_Witness ==
  /\ last.res = "ignored"
  /\ Len(ledger[last.txn].args) = 3
  /\ ledger[last.txn].args[1] = <<1, 2, 3, 4>>
  /\ Len(tickets) = 1
  /\ cycle.outcome = "ok"

\* The step inserts a Ticket row for the mint the handler is suspended on.
InsertsTicket == pc = "mint_commit" /\ Len(tickets') = Len(tickets) + 1

\* C21: return-log decoding yields a value only for a log of at least 12
\* bytes that begins with the marker 15 1f 7c 75, the value being the
\* big-endian integer of bytes 4..11.  A mint that has only its log to go by
\* is unresolved when the log is shorter or has another marker, and otherwise
\* gets a row with that value as asset id.
C21_ReturnLogDecoding ==
  [][ /\ (HandlesTxn /\ Classify(CurTxn) = "mint"
             /\ FirstAcfg(CurTxn.inner) = 0 /\ ~HasValidReturnLog(CurTxn))
           => (last' = [txn |-> CurTxn.id, res |-> "unresolved"] /\ pc' # "mint_commit")
      /\ (InsertsTicket /\ FirstAcfg(ledger[pending.txn].inner) = 0)
           => LET log == ledger[pending.txn].logs[Len(ledger[pending.txn].logs)]
              IN /\ Len(log) >= 12
                 /\ SubSeq(log, 1, 4) = RETURN_MARKER
                 /\ tickets'[Len(tickets')].asa_id = FromBytesBig(SubSeq(log, 5, 12)) ]_vars

\* C22: uint64 argument decoding fails for every argument of fewer than 8
\* bytes and returns the big-endian value of an 8-byte argument.  A price
\* argument of fewer than 8 bytes never gives a row its price (the row, if
\* any, keeps the default 0), and a transfer whose asset-id argument has fewer
\* than 8 bytes never reaches the Ticket lookup.
C22_Uint64Decoding ==
  [][ /\ (InsertsTicket /\ Len(ledger[pending.txn].args) > 1
             /\ B64Ok(ledger[pending.txn].args[2]))
           => LET arg == ledger[pending.txn].args[2]
                  price == tickets'[Len(tickets')].ticket_price
              IN /\ Len(arg) < 8 => price = 0
                 /\ Len(arg) = 8 => price = FromBytesBig(arg)
      /\ (HandlesTxn /\ Classify(CurTxn) = "transfer" /\ Len(CurTxn.args) > 1
             /\ B64Ok(CurTxn.args[2]) /\ Len(CurTxn.args[2]) < 8)
           => (/\ last' = [txn |-> CurTxn.id, res |-> "skipped_undecodable"]
               /\ pc' # "transfer_commit") ]_vars

\* C23: ARC-4 string decoding of the seat fails when the buffer is shorter
\* than 2 bytes or its 2-byte big-endian prefix declares more bytes than
\* remain, and never returns a seat whose length differs from the declared
\* one.  The seat of an inserted row is either the default "UNKNOWN" of a
\* failed decoding or has the declared length, which the buffer holds.
C23_Arc4StringDecoding ==
  [][ (InsertsTicket /\ Len(ledger[pending.txn].args) > 2
         /\ B64Ok(ledger[pending.txn].args[3]))
      => LET buf == ledger[pending.txn].args[3]
             seat == tickets'[Len(tickets')].seat_number
         IN \/ seat = SEAT_UNKNOWN
            \/ /\ Len(buf) >= 2
               /\ FromBytesBig(SubSeq(buf, 1, 2)) <= Len(buf) - 2
               /\ Len(seat) = FromBytesBig(SubSeq(buf, 1, 2)) ]_vars

\* C24: ARC-4 string round trip.  For every seat label s, the row inserted
\* for a mint whose seat argument is the encoding of s (2-byte big-endian
\* length, then the bytes of s) has seat_number = s.
C24_Arc4RoundTrip ==
  [][ \A s \in SeatStrings(MaxSeatLen) :
        (InsertsTicket /\ Len(ledger[pending.txn].args) > 2
           /\ ledger[pending.txn].args[2] = EncodeUint64(100)
           /\ ledger[pending.txn].args[3] = EncodeArc4String(s))
        => tickets'[Len(tickets')].seat_number = s ]_vars

\* C24 witness: the row of a mint whose label has MaxSeatLen characters, one
\* of them of two bytes.
C24_Witness ==
  \E i \in 1..Len(tickets) :
    /\ Len(tickets[i].seat_number) = MaxSeatLen + 1
    /\ ledger[tickets[i].txn_id].args[3] = EncodeArc4String(tickets[i].seat_number)
    /\ \E j \in 1..MaxSeatLen : tickets[i].seat_number[j] = 195

\* C25: with no application id configured the subscriber is permanently
\* inert.  It is never running, its task is at start() or over, no indexer
\* query was issued (no poll cycle, no transaction handed to a handler, no
\* error outcome), no Transfer row exists and every Ticket row is one of the
\* API mint flow (owned by the application address).
C25_UnconfiguredIsInert ==
  app_id = 0 =>
    /\ ~running
    /\ pc \in {"init", "cancelling", "exited"}
    /\ cycle = NoCycle
    /\ handed = {}
    /\ last = NoCall
    /\ batch = <<>>
    /\ pending = NoPending
    /\ last_round = 0
    /\ transfers = <<>>
    /\ \A i \in 1..Len(tickets) : tickets[i].current_owner_wallet = APP_ADDRESS

\* C25 witness: start() has returned on an unconfigured subscriber while the
\* ledger holds transactions of the application and the API wrote a row.
C25_Witness ==
  /\ app_id = 0
  /\ pc = "exited"
  /\ running = FALSE
  /\ Len(ledger) = MaxTxns
  /\ \E i \in 1..Len(ledger) : IsTransferTxn(ledger[i])
  /\ Len(tickets) > 0

\* C26: once stop() has been called on a subscriber whose start() was launched
\* (the task not yet run, asleep, or inside a cycle), no new poll cycle begins
\* and the loop eventually exits; an exited loop stays exited until the host
\* process is started again.
C26_StopEndsLoop ==
  /\ [][ /\ pc = "cancelling" => pc' \in {"cancelling", "exited"}
         /\ (pc = "exited" /\ epoch' = epoch) => pc' = "exited" ]_vars
  /\ [](~running /\ pc \notin {"init", "exited"} => pc = "cancelling")
  /\ (pc = "cancelling" ~> pc = "exited")

\* C26 witness: the host shut down while a poll cycle was in flight and the
\* loop has exited.
C26_Witness ==
  /\ pc = "exited"
  /\ ~running
  /\ cycle.outcome = "cancelled"
  /\ last_round > 0

\* C27: shutdown never truncates a batch.  When the loop ends on a shutdown,
\* no fetched batch is left with unprocessed transactions and no handler is
\* left between its select and its commit.
C27_ShutdownNeverTruncates ==
  [][ (pc = "cancelling" /\ pc' = "exited") => (idx = 0 /\ pending = NoPending) ]_vars

\* C30: the contract rejects transfer_ticket whenever the payment amount
\* exceeds max_resale_price, and a rejected call changes nothing: every asset
\* stays with its holder, the application account receives nothing, the
\* global is unchanged and no transaction is confirmed.
C30_OverpricedTransferRejected ==
  [][ /\ (/\ contract'.calls = contract.calls + 1
          /\ contract'.last.method = "transfer_ticket"
          /\ contract.max_resale_price # NONE
          /\ contract'.last.amount > contract.max_resale_price)
        => ~contract'.last.ok
      /\ (contract'.calls = contract.calls + 1 /\ ~contract'.last.ok)
        => /\ contract'.holder = contract.holder
           /\ contract'.balance = contract.balance
           /\ contract'.max_resale_price = contract.max_resale_price
           /\ ledger' = ledger ]_vars

\* C30 witness: an over-priced transfer_ticket call, paid to the application
\* for an asset the application holds, was rejected.
C30_Witness ==
  /\ contract.last.method = "transfer_ticket"
  /\ ~contract.last.ok
  /\ contract.last.amount > contract.max_resale_price
  /\ contract.max_resale_price # NONE
  /\ contract.last.receiver = APP_ADDRESS
  /\ CanRelease(contract, contract.last.asset)
  /\ contract.balance = 0

\* C28: the Transfer log is append-only and asset ids are immutable.  Every
\* step (reconcile_mint, reconcile_transfer, API mint, and all others) leaves
\* the Transfer rows written so far as they are, deletes no Ticket row and
\* leaves the asa_id of every existing Ticket unchanged.
C28_AppendOnly ==
  [][ /\ Len(transfers') >= Len(transfers)
      /\ \A i \in 1..Len(transfers) : transfers'[i] = transfers[i]
      /\ Len(tickets') >= Len(tickets)
      /\ \A i \in 1..Len(tickets) : tickets'[i].asa_id = tickets[i].asa_id ]_vars

\* C28 witness: a second Transfer row was written behind the first, for a
\* Ticket whose owner changed and whose asset id is the minted one.
C28_Witness ==
  /\ Len(transfers) = 2
  /\ transfers[1] # transfers[2]
  /\ Len(tickets) = 1
  /\ tickets[1].status = "transferred"
  /\ tickets[1].asa_id = MintAsaId(ledger[tickets[1].txn_id])

\* A step that writes a Transfer row or changes the owner or status of an
\* existing Ticket row.
WritesTransferOrOwner ==
  \/ transfers' # transfers
  \/ \E i \in 1..Len(tickets) :
       \/ i > Len(tickets')
       \/ tickets'[i].current_owner_wallet # tickets[i].current_owner_wallet
       \/ tickets'[i].status # tickets[i].status

\* C29: the poll loop is the only writer of Transfer rows and the only mutator
\* of a Ticket's owner and status: such a step is the commit of
\* reconcile_transfer, and the API mint flow only appends one Ticket row (or
\* none) and leaves every existing row and the Transfer table unchanged.
C29_PollerOnlyWriter ==
  [][ /\ WritesTransferOrOwner
        => (pc = "transfer_commit" /\ last' = [txn |-> pending.txn, res |-> "applied"])
      /\ (api.state = "minted" /\ api'.state = "idle")
        => /\ transfers' = transfers
           /\ Len(tickets') \in {Len(tickets), Len(tickets) + 1}
           /\ SubSeq(tickets', 1, Len(tickets)) = tickets
           /\ Len(tickets') > Len(tickets) => tickets'[Len(tickets')] = ApiTicket(api) ]_vars

\* C29 witness: the API saved its row behind a row the poller had inserted,
\* which is as the poller wrote it.
C29_Witness ==
  /\ api.state = "idle"
  /\ Len(tickets) = 2
  /\ tickets[1] = PollerTicket(ledger[tickets[1].txn_id])
  /\ tickets[2].current_owner_wallet = APP_ADDRESS
  /\ tickets[2].txn_id # tickets[1].txn_id

\* C31: a transfer_ticket call whose payment is at most max_resale_price and
\* goes to the application address, for an asset the contract holds, succeeds:
\* the caller then holds the unit of the asset, the application received the
\* payment and the call is confirmed.  The outcome of earlier calls, rejected
\* ones included, plays no part.
C31_FairTransferAccepted ==
  [][ (/\ contract'.calls = contract.calls + 1
       /\ contract'.last.method = "transfer_ticket"
       /\ contract.max_resale_price # NONE
       /\ contract'.last.amount <= contract.max_resale_price
       /\ contract'.last.receiver = APP_ADDRESS
       /\ CanRelease(contract, contract'.last.asset))
      => /\ contract'.last.ok
         /\ contract'.holder[contract'.last.asset] = contract'.last.sender
         /\ \A a \in DOMAIN contract.holder :
              a # contract'.last.asset => contract'.holder[a] = contract.holder[a]
         /\ contract'.balance = contract.balance + contract'.last.amount
         /\ Len(ledger') = Len(ledger) + 1 ]_vars

\* C31 witness: the fan bought at face value the asset for which an
\* over-priced call of the scalper, paid to the application, had been rejected.
C31_Witness ==
  /\ contract.last.method = "transfer_ticket"
  /\ contract.last.ok
  /\ contract.last.sender = "FAN"
  /\ contract.last.amount = contract.max_resale_price
  /\ contract.holder[contract.last.asset] = "FAN"
  /\ \E r \in contract.rejected :
       /\ r.asset = contract.last.asset
       /\ r.sender = "SCALPER"
       /\ r.receiver = APP_ADDRESS
       /\ r.amount > contract.max_resale_price

\* Price with which asset `asa` was minted: the price argument of the
\* confirmed mint_ticket call that created it (its position on the ledger).
MintedPrice(asa) == FromBytesBig(ledger[asa].args[2])

\* C32: the resale cap is per ticket.  After any sequence of calls, a
\* transfer of an asset minted with price p is accepted only if its payment is
\* at most p, whatever was minted since.
C32_CapIsPerTicket ==
  [][ (/\ contract'.calls = contract.calls + 1
       /\ contract'.last.method = "transfer_ticket"
       /\ contract'.last.ok)
      => contract'.last.amount <= MintedPrice(contract'.last.asset) ]_vars

\* The store holds both effects of every transfer reconciliation or neither:
\* a Ticket named by a Transfer row is transferred and owned by the receiver
\* of its latest row, and a transferred Ticket has a Transfer row.
TransfersMatchTickets ==
  /\ \A r \in 1..Len(transfers) :
       /\ transfers[r].ticket_id \in 1..Len(tickets)
       /\ tickets[transfers[r].ticket_id].status = "transferred"
       /\ ((\A q \in (r + 1)..Len(transfers) :
               transfers[q].ticket_id # transfers[r].ticket_id)
           => (tickets[transfers[r].ticket_id].current_owner_wallet
                 = transfers[r].to_wallet))
  /\ \A i \in 1..Len(tickets) :
       (tickets[i].status = "transferred")
         => (\E r \in 1..Len(transfers) : transfers[r].ticket_id = i)

\* C33: each transfer reconciliation is atomic.  In every reachable state,
\* after a store failure or a cancellation during _handle_transfer as well, the
\* Transfer row of a reconciliation is in the store if and only if its
\* owner/status update is: a step that appends a Transfer row for transaction
\* t sets the owner and status of its Ticket, a step that changes the owner or
\* status of a Ticket appends the row of t, and no step does one only.
C33_TransferAtomic ==
  /\ []TransfersMatchTickets
  /\ [][ /\ Len(transfers') > Len(transfers)
           => LET row == transfers'[Len(transfers')]
              IN /\ Len(transfers') = Len(transfers) + 1
                 /\ pc = "transfer_commit"
                 /\ row.txn_id = pending.txn
                 /\ row.ticket_id = pending.tid
                 /\ tickets'[pending.tid].current_owner_wallet = row.to_wallet
                 /\ tickets'[pending.tid].status = "transferred"
         /\ (\E i \in 1..Len(tickets) :
               \/ tickets'[i].current_owner_wallet # tickets[i].current_owner_wallet
               \/ tickets'[i].status # tickets[i].status)
           => /\ Len(transfers') = Len(transfers) + 1
              /\ transfers'[Len(transfers')].txn_id = pending.txn
         /\ (pc = "transfer_commit" /\ pc' # "transfer_commit"
            /\ (pc' = "cancelling" \/ last'.res = "store_error"))
           => UNCHANGED <<tickets, transfers>> ]_vars

\* C33 witness: a transfer that had been applied was reconciled again after a
\* restart and the store failed during that reconciliation; the store holds
\* the one row and the update of the first.
C33_Witness ==
  /\ epoch > 0
  /\ last.res = "store_error"
  /\ Len(transfers) = 1
  /\ transfers[1].txn_id = last.txn
  /\ tickets[transfers[1].ticket_id].status = "transferred"
  /\ tickets[transfers[1].ticket_id].current_owner_wallet = transfers[1].to_wallet

\* Ledger transactions i and j are both in the batch being processed, i is a
\* mint that resolves to an asset and j, confirmed later, a transfer of it.
MintThenTransfer(i, j) ==
  /\ i < j
  /\ j <= Len(ledger)
  /\ \E k, l \in 1..Len(batch) : batch[k] = i /\ batch[l] = j
  /\ Classify(ledger[i]) = "mint"
  /\ MintAsaId(ledger[i]) # NONE
  /\ Classify(ledger[j]) = "transfer"
  /\ TransferAsaId(ledger[j]) = MintAsaId(ledger[i])

\* C34: within one batch transactions are reconciled in the order of the
\* response, ascending by round.  The batch is ascending and handled from its
\* first transaction to its last, and a transfer of asset a that follows the
\* mint of a in the same batch finds the Ticket and is Applied: the Ticket is
\* then owned by the buyer with status transferred and the log has one row
\* for the transfer.
C34_BatchInOrder ==
  [][ /\ \A k, l \in 1..Len(batch') :
           k < l => ledger[batch'[k]].round < ledger[batch'[l]].round
      /\ (pc = "batch" /\ pc' = "batch") => idx' \in {idx, idx + 1}
      /\ (pc = "poll" /\ pc' = "batch") => idx' = 1
      /\ (pc \in {"mint_commit", "transfer_commit"} /\ pc' # "sleep")
           => (pc' = "batch" /\ idx' = idx + 1)
      /\ \A i, j \in 1..MaxTxns :
           /\ (HandlesTxn /\ batch[idx] = j /\ MintThenTransfer(i, j))
                => (pc' = "transfer_commit" /\ pending'.txn = j)
           /\ (pc = "transfer_commit" /\ pc' # "transfer_commit"
                  /\ pending.txn = j /\ MintThenTransfer(i, j))
                => /\ last' = [txn |-> j, res |-> "applied"]
                   /\ \E t \in 1..Len(tickets') :
                        /\ tickets'[t].asa_id = MintAsaId(ledger[i])
                        /\ tickets'[t].current_owner_wallet = ledger[j].sender
                        /\ tickets'[t].status = "transferred"
                        /\ Cardinality({r \in 1..Len(transfers') :
                                          /\ transfers'[r].txn_id = j
                                          /\ transfers'[r].ticket_id = t}) = 1
                   /\ Len(transfers') = Len(transfers) + 1 ]_vars

\* C34 witness: one cycle fetched the mint of asset 1 and the transfer of
\* asset 1 to the buyer and applied both.
C34_Witness ==
  /\ pc = "sleep"
  /\ cycle = [start |-> 0, min_round |-> 0, maxround |-> 2, outcome |-> "ok"]
  /\ last = [txn |-> 2, res |-> "applied"]
  /\ Len(tickets) = 1
  /\ tickets[1].txn_id = 1
  /\ tickets[1].asa_id = 1
  /\ tickets[1].current_owner_wallet = "BUYER1"
  /\ tickets[1].status = "transferred"
  /\ Len(transfers) = 1
  /\ transfers[1].txn_id = 2

\* Positions of the Transfer rows of the Ticket at position t, oldest first.
RowsOf(t) == SelectSeq([r \in 1..Len(transfers) |-> r],
                       LAMBDA r : transfers[r].ticket_id = t)

\* Owners a Ticket row can have been created with: the sender of its mint
\* (a row of the poller) or the application address (a row of the API).
OwnersAtCreation(t) == {ledger[tickets[t].txn_id].sender, APP_ADDRESS}

\* C35: ownership is consistent with the transfer log in every reachable
\* state.  For every Ticket with a Transfer row the owner is the to_wallet of
\* its latest row and the status is transferred; each row's from_wallet is the
\* to_wallet of the Ticket's previous row, and that of the first row is the
\* owner the Ticket had until then, which it was created with.
C35_OwnershipMatchesLog ==
  /\ [](\A t \in 1..Len(tickets) :
          LET rows == RowsOf(t)
          IN Len(rows) > 0 =>
               /\ tickets[t].current_owner_wallet = transfers[rows[Len(rows)]].to_wallet
               /\ tickets[t].status = "transferred"
               /\ \A k \in 2..Len(rows) :
                    transfers[rows[k]].from_wallet = transfers[rows[k - 1]].to_wallet
               /\ transfers[rows[1]].from_wallet \in OwnersAtCreation(t))
  /\ [][ Len(transfers') > Len(transfers)
          => LET row == transfers'[Len(transfers')]
             IN /\ row.ticket_id \in 1..Len(tickets)
                /\ row.from_wallet = tickets[row.ticket_id].current_owner_wallet
                /\ RowsOf(row.ticket_id) = <<>>
                     => tickets[row.ticket_id].status = "minted" ]_vars

\* C35 witness: a Ticket with two Transfer rows, the first from the owner it
\* was created with.
C35_Witness ==
  /\ Len(tickets) = 1
  /\ Len(RowsOf(1)) = 2
  /\ transfers[1].from_wallet # transfers[1].to_wallet
  /\ transfers[2].from_wallet = transfers[1].to_wallet
  /\ tickets[1].current_owner_wallet = transfers[2].to_wallet

\* C36: the Ticket row of an on-chain mint does not depend on its writer.
\* While the API holds the chain result of its mint, a row the poller has
\* already written for that asset is the row the API would write: same owner,
\* event, price, seat and status.
C36_RowIndependentOfWriter ==
  api.state = "minted" =>
    \A i \in 1..Len(tickets) :
      tickets[i].asa_id = api.asa_id =>
        /\ tickets[i].current_owner_wallet = ApiTicket(api).current_owner_wallet
        /\ tickets[i].event_id = ApiTicket(api).event_id
        /\ tickets[i].ticket_price = ApiTicket(api).ticket_price
        /\ tickets[i].seat_number = ApiTicket(api).seat_number
        /\ tickets[i].status = ApiTicket(api).status

====
